---- MODULE Spec2Model ----
(***************************************************************************)
(* Model of the BabyLM objective-collator dispatch                         *)
(* (src/src/objective.py), the difficulty-scorer factory                   *)
(* (src/src/difficulty_scorer/__init__.py) and the pseudo-perplexity       *)
(* estimator (src/src/utils/inference.py).                                 *)
(***************************************************************************)
EXTENDS Integers, Sequences, FiniteSets, TLC

VARIABLES curriculum, result, resolved, revisit,
          registry, trainer, scorerResult,
          tokenizerMask, ppl

vars == <<curriculum, result, resolved, revisit,
          registry, trainer, scorerResult,
          tokenizerMask, ppl>>

objVars == <<curriculum, result, resolved, revisit>>
scorerVars == <<registry, trainer, scorerResult>>
pplVars == <<tokenizerMask, ppl>>

(***************************************************************************)
(* Bounds                                                                  *)
(***************************************************************************)
MaxStep == 1

MaxBatch == 2

MaxSeqLen == 2

MaxTokenId == 1

MaxLoss == 2

Steps == 0..MaxStep

(***************************************************************************)
(* Curriculum: steps (step -> key of units) and units (key -> unit record  *)
(* with a name and a mask_probability, in percent).                        *)
(***************************************************************************)
UnitKeys == {"mlm", "pos", "sem"}

MaskProbabilities == {15, 40}

UnitRecords == [name : UnitKeys, mask_probability : MaskProbabilities]

\* The "mlm" unit is always in the curriculum (inference.py, NOTE before
\* the units["mlm"] access); every other entry is free configuration.
UnitsSpace ==
    UNION {[K -> UnitRecords] : K \in {S \in SUBSET UnitKeys : "mlm" \in S}}

StepsSpace == UNION {[K -> UnitKeys] : K \in SUBSET Steps}

Curricula == [steps : StepsSpace, units : UnitsSpace]

\* The tokenizer handle passed through to the collator.
Tokenizer == "tokenizer"

NoResult ==
    [step |-> -1, outcome |-> "none", name |-> "none", error |-> "none",
     collator |-> "none", mlm_probability |-> -1, tokenizer |-> "none"]

(***************************************************************************)
(* load_objective_collator, lines 23-27: the active unit name.             *)
(***************************************************************************)
\* curriculum.units[curriculum.steps[step]] raises KeyError
NameLookupNoFallback(cur, step) ==
    \/ step \notin DOMAIN cur.steps
    \/ cur.steps[step] \notin DOMAIN cur.units

NameLookupFails(cur, step) ==
    /\ step \in DOMAIN cur.steps
    /\ cur.steps[step] \notin DOMAIN cur.units

ActiveUnitName(cur, step) ==
    IF step \in DOMAIN cur.steps
    THEN cur.units[cur.steps[step]].name
    ELSE "mlm"

(***************************************************************************)
(* load_objective_collator, lines 31-48: dispatch on the name.             *)
(***************************************************************************)
Raised(step, name, err) ==
    [step |-> step, outcome |-> "raised", name |-> name, error |-> err,
     collator |-> "none", mlm_probability |-> -1, tokenizer |-> "none"]

\* CustomDataCollatorForWholeWordMask.__init__ raises before building anything
WholeWordMaskInit(step, name) ==
    Raised(step, name, "UnimplementedCollator")

DispatchDefaultProbability(cur, tok, step, name) ==
    IF name = "mlm"
    THEN [step |-> step, outcome |-> "returned", name |-> name,
          error |-> "none", collator |-> "DataCollatorForLanguageModeling",
          mlm_probability |-> 15, tokenizer |-> tok]
    ELSE IF name = "pos"
    THEN IF name \in DOMAIN cur.units
         THEN WholeWordMaskInit(step, name)
         ELSE Raised(step, name, "KeyError")
    ELSE Raised(step, name, "UnsupportedObjective")

DispatchSilentFallback(cur, tok, step, name) ==
    IF name = "mlm" \/ name = "pos"
    THEN IF name \in DOMAIN cur.units
         THEN [step |-> step, outcome |-> "returned", name |-> name,
               error |-> "none",
               collator |-> "DataCollatorForLanguageModeling",
               mlm_probability |-> cur.units[name].mask_probability,
               tokenizer |-> tok]
         ELSE Raised(step, name, "KeyError")
    ELSE [step |-> step, outcome |-> "returned", name |-> name,
          error |-> "none", collator |-> "DataCollatorForLanguageModeling",
          mlm_probability |-> cur.units["mlm"].mask_probability,
          tokenizer |-> tok]

Dispatch(cur, tok, step, name) ==
    IF name = "mlm"
    THEN IF name \in DOMAIN cur.units
         THEN [step |-> step, outcome |-> "returned", name |-> name,
               error |-> "none",
               collator |-> "DataCollatorForLanguageModeling",
               mlm_probability |-> cur.units[name].mask_probability,
               tokenizer |-> tok]
         ELSE Raised(step, name, "KeyError")
    ELSE IF name = "pos"
    THEN \* the arguments (units[name]["mask_probability"]) are evaluated
         \* before the constructor is entered
         IF name \in DOMAIN cur.units
         THEN WholeWordMaskInit(step, name)
         ELSE Raised(step, name, "KeyError")
    ELSE Raised(step, name, "UnsupportedObjective")

CallOutcome(cur, tok, step) ==
    IF NameLookupFails(cur, step)
    THEN Raised(step, "unresolved", "KeyError")
    ELSE Dispatch(cur, tok, step, ActiveUnitName(cur, step))

\* The function assigns to nothing reachable from the curriculum.
CurriculumAfterCallPop(cur, step) ==
    [cur EXCEPT !.steps = [s \in DOMAIN cur.steps \ {step} |-> cur.steps[s]]]

CurriculumAfterCall(cur, step) == cur

LoadObjectiveCollator(step) ==
    /\ result' = CallOutcome(curriculum, Tokenizer, step)
    /\ curriculum' = CurriculumAfterCall(curriculum, step)
    /\ resolved' = [resolved EXCEPT ![step] = result'.name]
    /\ revisit' = (resolved[step] # "none" /\ result.step # step)
    /\ UNCHANGED <<scorerVars, pplVars>>

InitObjective ==
    /\ curriculum \in Curricula
    /\ result = NoResult
    /\ resolved = [s \in Steps |-> "none"]
    /\ revisit = FALSE

IdleScorer ==
    /\ registry = <<>>
    /\ trainer = [id |-> "none", tokenizer |-> "none", fast |-> FALSE]
    /\ scorerResult = "none"

IdlePerplexity ==
    /\ tokenizerMask = -1
    /\ ppl = "none"

Init == InitObjective /\ IdleScorer /\ IdlePerplexity

Next == \E step \in Steps : LoadObjectiveCollator(step)

Spec == Init /\ [][Next]_vars

(***************************************************************************)
(* Properties of load_objective_collator                                   *)
(***************************************************************************)
Called == result.outcome # "none"

\* The reference lookup: the schedule's own entry, else "mlm".
ScheduleEntry(cur, step) ==
    IF step \in DOMAIN cur.steps THEN cur.steps[step] ELSE "mlm"

ScheduleKeysIntoUnits(cur) ==
    \A s \in DOMAIN cur.steps : cur.steps[s] \in DOMAIN cur.units

\* C1: after every call, the resolved active unit name is the schedule's
\* entry for the step when the step is a key of the schedule, and "mlm"
\* when it is not.
C1_NameIsScheduleEntry ==
    Called => result.name = ScheduleEntry(curriculum, result.step)

\* C2: when every schedule value keys into units and units holds "mlm",
\* resolving the active unit name of any step completes with a name; it
\* never ends in an error.
C2_LookupNeverFails ==
    (/\ Called
     /\ ScheduleKeysIntoUnits(curriculum)
     /\ "mlm" \in DOMAIN curriculum.units)
        => (/\ result.name \in UnitKeys
            /\ \A s \in Steps : resolved[s] \in UnitKeys \cup {"none"})

\* C2 witness: under the precondition, a step of the schedule and a step
\* absent from it have both been looked up.
C2_Witness ==
    /\ Called
    /\ ScheduleKeysIntoUnits(curriculum)
    /\ result.step \in DOMAIN curriculum.steps
    /\ \E s \in Steps \ DOMAIN curriculum.steps : resolved[s] = "mlm"

\* C3: no call changes curriculum.steps or curriculum.units, whatever its
\* outcome, and a step that was resolved before resolves to the same
\* name (or the same lookup error) again, whatever was called in between.
C3_CurriculumReadOnly ==
    [][/\ curriculum' = curriculum
       /\ \A s \in Steps :
            resolved[s] # "none" => resolved'[s] = resolved[s]]_vars

\* C3 witness: a step is called again after a call of another step, and
\* one of the calls so far ended in an error.
C3_Witness ==
    /\ revisit
    /\ result.step \in DOMAIN curriculum.steps
    /\ \E s \in Steps : resolved[s] = "unresolved"

\* C4: whenever the resolved name is "mlm", by an exact schedule match or
\* by fallback, the call returns the masked-language-model collator with
\* mlm_probability = curriculum.units["mlm"].mask_probability.
C4_MlmCollatorProbability ==
    (Called /\ result.name = "mlm")
        => (/\ result.outcome = "returned"
            /\ result.collator = "DataCollatorForLanguageModeling"
            /\ result.mlm_probability
                 = curriculum.units["mlm"].mask_probability)

\* C4 witness: "mlm" resolved by an exact match in the last call and by
\* fallback in an earlier one, with a mask probability that is not 0.15.
C4_Witness ==
    /\ result.name = "mlm"
    /\ result.step \in DOMAIN curriculum.steps
    /\ result.mlm_probability = 40
    /\ \E s \in Steps \ DOMAIN curriculum.steps : resolved[s] = "mlm"

\* C5: whenever the resolved name is neither "mlm" nor "pos", the call
\* raises the unsupported-objective error and returns no collator.
C5_UnsupportedObjective ==
    (Called /\ result.name \in UnitKeys \ {"mlm", "pos"})
        => (/\ result.outcome = "raised"
            /\ result.error = "UnsupportedObjective"
            /\ result.collator = "none")

\* C5 witness: a call resolved the name "sem".
C5_Witness ==
    /\ result.name = "sem"
    /\ result.error = "UnsupportedObjective"

\* C6: whenever the resolved name is "pos", the call ends in the
\* not-implemented error of the whole-word-masking collator.
C6_PosNotImplemented ==
    (Called /\ result.name = "pos")
        => (/\ result.outcome = "raised"
            /\ result.error = "UnimplementedCollator"
            /\ result.collator = "none")

(***************************************************************************)
(* get_difficulty_scorer (difficulty_scorer/__init__.py).                  *)
(***************************************************************************)
ScorerNames == {"ngram_perplexity", "self_perplexity"}

RequestedNames == ScorerNames \cup {"unregistered"}

Attributes == {"tokenizer", "trainer"}

\* DIFFICULTY_SCORER_REGISTRY: name -> constructor, a constructor being
\* told apart by the attributes its instances carry.
Registries == UNION {[K -> SUBSET Attributes] : K \in SUBSET ScorerNames}

ScorerKwargs == {"n_gram=2", "n_gram=3"}

Trainers ==
    [id : {"trainer"}, tokenizer : {"tokA", "tokB"}, fast : BOOLEAN]

NoScorer == [cls |-> "none", kwargs |-> "none", attrs |-> <<>>]

\* DIFFICULTY_SCORER_REGISTRY[name](**kwargs): a fresh instance whose
\* declared attributes exist and are not bound yet.
Construct(reg, name, kwargs) ==
    [cls |-> name, kwargs |-> kwargs, attrs |-> [a \in reg[name] |-> "None"]]

\* isinstance against the runtime-checkable protocols: the attribute exists
UsesTrainer(scorer) == "trainer" \in DOMAIN scorer.attrs

UsesTokenizers(scorer) == "tokenizer" \in DOMAIN scorer.attrs

SetAttr(scorer, attr, value) ==
    [scorer EXCEPT !.attrs =
        [a \in DOMAIN scorer.attrs \cup {attr} |->
            IF a = attr THEN value ELSE scorer.attrs[a]]]

ScorerRaised(name, err, invoked) ==
    [name |-> name, outcome |-> "raised", error |-> err,
     constructorInvoked |-> invoked, scorer |-> NoScorer]

ScorerReturned(name, scorer) ==
    [name |-> name, outcome |-> "returned", error |-> "none",
     constructorInvoked |-> TRUE, scorer |-> scorer]

ScorerOutcomeNoTokenizer(reg, name, kwargs, tr) ==
    IF name \in DOMAIN reg
    THEN LET built == Construct(reg, name, kwargs)
             wired == IF UsesTrainer(built)
                      THEN SetAttr(built, "trainer", tr.id)
                      ELSE built
         IN  ScorerReturned(name, wired)
    ELSE ScorerRaised(name, "UnsupportedScorer", FALSE)

ScorerOutcomeDefaultScorer(reg, name, kwargs, tr) ==
    IF name \in DOMAIN reg
    THEN LET built == Construct(reg, name, kwargs)
             wired == IF UsesTrainer(built)
                      THEN SetAttr(built, "trainer", tr.id)
                      ELSE built
         IN  IF UsesTokenizers(wired)
             THEN IF tr.fast
                  THEN ScorerReturned(
                           name, SetAttr(wired, "tokenizer", tr.tokenizer))
                  ELSE ScorerRaised(name, "AssertionError", TRUE)
             ELSE ScorerReturned(name, wired)
    ELSE ScorerReturned(
             name, [cls |-> "default", kwargs |-> kwargs, attrs |-> <<>>])

ScorerOutcome(reg, name, kwargs, tr) ==
    IF name \in DOMAIN reg
    THEN LET built == Construct(reg, name, kwargs)
             wired == IF UsesTrainer(built)
                      THEN SetAttr(built, "trainer", tr.id)
                      ELSE built
         IN  IF UsesTokenizers(wired)
             THEN \* assert isinstance(trainer.tokenizer, PreTrainedTokenizerFast)
                  IF tr.fast
                  THEN ScorerReturned(
                           name, SetAttr(wired, "tokenizer", tr.tokenizer))
                  ELSE ScorerRaised(name, "AssertionError", TRUE)
             ELSE ScorerReturned(name, wired)
    ELSE ScorerRaised(name, "UnsupportedScorer", FALSE)

NoScorerResult ==
    [name |-> "none", outcome |-> "none", error |-> "none",
     constructorInvoked |-> FALSE, scorer |-> NoScorer]

GetDifficultyScorer(name, kwargs) ==
    /\ scorerResult' = ScorerOutcome(registry, name, kwargs, trainer)
    /\ UNCHANGED <<registry, trainer>>
    /\ UNCHANGED <<objVars, pplVars>>

InitScorer ==
    /\ registry \in Registries
    /\ trainer \in Trainers
    /\ scorerResult = NoScorerResult

IdleObjective ==
    /\ curriculum = [steps |-> <<>>, units |-> <<>>]
    /\ result = NoResult
    /\ resolved = <<>>
    /\ revisit = FALSE

NextScorer ==
    \E name \in RequestedNames, kwargs \in ScorerKwargs :
        GetDifficultyScorer(name, kwargs)

ScorerInit == InitScorer /\ IdleObjective /\ IdlePerplexity

SpecScorer == ScorerInit /\ [][NextScorer]_vars

\* C7: a returned scorer carries exactly the attributes its class
\* declares; a declared tokenizer is trainer.tokenizer itself and a
\* declared trainer is the trainer passed in.
C7_ScorerFullyWired ==
    scorerResult.outcome = "returned"
        => LET declared == registry[scorerResult.name]
               attrs == scorerResult.scorer.attrs
           IN  /\ DOMAIN attrs = declared
               /\ "tokenizer" \in declared
                    => attrs["tokenizer"] = trainer.tokenizer
               /\ "trainer" \in declared => attrs["trainer"] = trainer.id

\* C7 witness: a scorer that declares the tokenizer and not the trainer
\* has been returned.
C7_Witness ==
    /\ scorerResult.outcome = "returned"
    /\ registry[scorerResult.name] = {"tokenizer"}
    /\ scorerResult.scorer.attrs["tokenizer"] = "tokB"

\* C8: a call with a name that is no key of the registry raises the
\* unsupported-scorer error, invokes no constructor, returns no scorer and
\* leaves the trainer and the registry as they were.
C8_UnsupportedScorer ==
    [][scorerResult'.name \notin DOMAIN registry
        => (/\ scorerResult'.outcome = "raised"
            /\ scorerResult'.error = "UnsupportedScorer"
            /\ ~scorerResult'.constructorInvoked
            /\ scorerResult'.scorer = NoScorer
            /\ trainer' = trainer
            /\ registry' = registry)]_vars

\* C8 witness: a name missing from a non-empty registry has been requested.
C8_Witness ==
    /\ scorerResult.outcome = "raised"
    /\ scorerResult.name = "self_perplexity"
    /\ scorerResult.name \notin DOMAIN registry
    /\ registry # <<>>

(***************************************************************************)
(* compute_trainer_perplexity (utils/inference.py).                        *)
(***************************************************************************)
TokenIds == 0..MaxTokenId

LossValues == 1..MaxLoss

IgnoreIndex == -100

\* tokenizer.mask_token_id; -1 stands for None
MaskTokenIds == TokenIds \cup {-1}

\* A batch: input_ids and special_tokens_mask, both (batch_size, seq_len)
Batches ==
    UNION {[input_ids : [1..B -> [1..L -> TokenIds]],
            special_tokens_mask : [1..B -> [1..L -> {0, 1}]]] :
              B \in 1..MaxBatch, L \in 1..MaxSeqLen}

RECURSIVE SumSeq(_)
SumSeq(q) == IF q = <<>> THEN 0 ELSE Head(q) + SumSeq(Tail(q))

\* lines 53-60: repeat_ids with the diagonal of every example set to mask_idx
MaskedInput(ids, mask_idx) ==
    [b \in DOMAIN ids |->
        [i \in DOMAIN ids[b] |->
            [j \in DOMAIN ids[b] |->
                IF i = j THEN mask_idx ELSE ids[b][j]]]]

\* line 63: repeat_ids.masked_fill(masked_input != mask_idx, -100)
LabelsBeforeSpecial(ids, mask_idx) ==
    LET masked_input == MaskedInput(ids, mask_idx)
    IN  [b \in DOMAIN ids |->
            [i \in DOMAIN ids[b] |->
                [j \in DOMAIN ids[b] |->
                    IF masked_input[b][i][j] # mask_idx
                    THEN IgnoreIndex
                    ELSE ids[b][j]]]]

\* lines 66-69: special tokens are ignored in every variant
Labels(batch, mask_idx) ==
    LET labels == LabelsBeforeSpecial(batch.input_ids, mask_idx)
    IN  [b \in DOMAIN labels |->
            [i \in DOMAIN labels[b] |->
                [j \in DOMAIN labels[b][i] |->
                    IF batch.special_tokens_mask[b][j] = 1
                    THEN IgnoreIndex
                    ELSE labels[b][i][j]]]]

\* lines 73-74: view(-1, seq_len) of a (batch, seq_len, seq_len) tensor
Flatten(t, seq_len) ==
    [r \in 1..(Len(t) * seq_len) |->
        t[((r - 1) \div seq_len) + 1][((r - 1) % seq_len) + 1]]

\* units["mlm"].compute_loss with reduction "none": nothing for an ignored
\* label, the cross entropy of the labelled token elsewhere
ComputeLoss(labels, tokenLoss) ==
    [r \in DOMAIN labels |->
        [j \in DOMAIN labels[r] |->
            IF labels[r][j] = IgnoreIndex
            THEN 0
            ELSE tokenLoss[labels[r][j]]]]

\* lines 94-103: sum over the sequence, view(batch_size, seq_len), mean
\* over seq_len, exp. The perplexity exp(sum / seq_len) is kept as the
\* pair (sum, seq_len) of its exponent.
BatchPerplexity(loss, batch_size, seq_len) ==
    LET summed == [r \in DOMAIN loss |-> SumSeq(loss[r])]
        viewed == [b \in 1..batch_size |->
                      [i \in 1..seq_len |-> summed[(b - 1) * seq_len + i]]]
    IN  [b \in 1..batch_size |->
            [kind |-> "finite", expOf |-> SumSeq(viewed[b]),
             over |-> seq_len]]

PerplexityOutcome(batch, mask_idx, tokenLoss) ==
    IF mask_idx = -1
    THEN [outcome |-> "raised", batch |-> batch, labels |-> <<>>,
          perplexity |-> <<>>]
    ELSE LET batch_size == Len(batch.input_ids)
             seq_len == Len(batch.input_ids[1])
             labels == Flatten(Labels(batch, mask_idx), seq_len)
             loss == ComputeLoss(labels, tokenLoss)
         IN  [outcome |-> "returned", batch |-> batch, labels |-> labels,
              perplexity |-> BatchPerplexity(loss, batch_size, seq_len)]

NoPerplexity ==
    [outcome |-> "none", batch |-> <<>>, labels |-> <<>>,
     perplexity |-> <<>>]

ComputeTrainerPerplexity(batch, tokenLoss) ==
    /\ ppl' = PerplexityOutcome(batch, tokenizerMask, tokenLoss)
    /\ UNCHANGED tokenizerMask
    /\ UNCHANGED <<objVars, scorerVars>>

InitPerplexity ==
    /\ tokenizerMask \in MaskTokenIds
    /\ ppl = NoPerplexity

NextPerplexity ==
    \E batch \in Batches, tokenLoss \in [TokenIds -> LossValues] :
        ComputeTrainerPerplexity(batch, tokenLoss)

PerplexityInit == InitPerplexity /\ IdleObjective /\ IdleScorer

SpecPerplexity == PerplexityInit /\ [][NextPerplexity]_vars

\* The label of variant i of example b at position j, in the flattened
\* (batch_size * seq_len, seq_len) labels.
LabelAt(b, i, j) ==
    ppl.labels[(b - 1) * Len(ppl.batch.input_ids[1]) + i][j]

IsSpecial(b, j) == ppl.batch.special_tokens_mask[b][j] = 1

\* C9: in every variant i of every example, the label at position i is
\* the original token id when position i is not special, and the label at
\* every other position, and at every special position, is -100.
C9_OneLabelPerVariant ==
    ppl.outcome = "returned"
        => \A b \in DOMAIN ppl.batch.input_ids :
             \A i, j \in DOMAIN ppl.batch.input_ids[b] :
                LabelAt(b, i, j) =
                    IF i = j /\ ~IsSpecial(b, j)
                    THEN ppl.batch.input_ids[b][j]
                    ELSE IgnoreIndex

\* C10: an example made of special tokens only never gets an ordinary
\* finite perplexity: its result is a sentinel, or the call fails.
C10_AllSpecialGuarded ==
    ppl.outcome = "returned"
        => \A b \in DOMAIN ppl.batch.input_ids :
             (\A j \in DOMAIN ppl.batch.input_ids[b] : IsSpecial(b, j))
                => ppl.perplexity[b].kind # "finite"

====
